---- MODULE Spec2Model ----
(***************************************************************************)
(* Model of chaosk8s/__init__.py (chaostoolkit-kubernetes 0.11.0):         *)
(*   - create_k8s_api_client: the client resolver (local kubeconfig first, *)
(*     otherwise a Configuration built from the secrets and the environ);  *)
(*   - discover / explore_kubernetes_system: the discovery record and the  *)
(*     optional cluster snapshot.                                          *)
(*                                                                         *)
(* Python values are tagged tuples: Str(s) is the string s, PyNone is None *)
(* and PyFalse is the boolean False. A dict is a function whose domain is  *)
(* its key set.                                                            *)
(***************************************************************************)
EXTENDS Integers, Sequences, FiniteSets, TLC

VARIABLES
    env,        \* os.environ: dict from variable name to string
    files,      \* the filesystem: the set of paths os.path.exists finds
    heap,       \* the Configuration objects allocated so far (object id = index)
    calls,      \* one record per completed create_k8s_api_client call
    namespaces, \* the cluster: its namespaces, in the API's listing order
    registry,   \* activities the host finds in each chaosk8s module
    discovered, \* the returns of discover (at most one)
    explored,   \* the returns of a direct explore_kubernetes_system call
    api_calls,  \* cluster API requests made, in order
    log         \* logzero records written, in order

vars == <<env, files, heap, calls, namespaces, registry, discovered, explored,
          api_calls, log>>

-----------------------------------------------------------------------------
(* Bounds of the model *)

\* an Environment holds at most this many of the variables the code reads
MaxEnvKeys == 2
\* a Credential Bundle holds at most this many keys
MaxSecretKeys == 2
\* calls of create_k8s_api_client in one behaviour of SpecCalls
MaxCalls == 2
\* namespaces the cluster lists
MaxNamespaces == 2

-----------------------------------------------------------------------------
(* Python values *)

Str(s) == <<"str", s>>
PyNone == <<"None">>
PyFalse == <<"False">>

EmptyDict == [k \in {} |-> PyNone]

\* dict.get(k, d)
dict_get(m, k, d) == IF k \in DOMAIN m THEN m[k] ELSE d

-----------------------------------------------------------------------------
(* Inputs: the variables the code reads, and the values the model draws *)

CredentialKeys ==
    {"KUBERNETES_HOST", "KUBERNETES_VERIFY_SSL", "KUBERNETES_CA_CERT_FILE",
     "KUBERNETES_API_KEY", "KUBERNETES_API_KEY_PREFIX", "KUBERNETES_CERT_FILE",
     "KUBERNETES_KEY_FILE", "KUBERNETES_USERNAME", "KUBERNETES_PASSWORD"}

Keys == CredentialKeys \cup {"KUBECONFIG"}

DefaultKubeconfig == "~/.kube/config"

\* os.path.expanduser on the paths of the model: a leading ~ becomes $HOME
expanduser(p) ==
    CASE p = "~/.kube/config" -> "/home/user/.kube/config"
      [] p = "~/alt.conf" -> "/home/user/alt.conf"
      [] OTHER -> p

Paths == {"/home/user/.kube/config", "/home/user/alt.conf", "/etc/k8s.conf"}

\* environment values are always strings
EnvValues(k) ==
    CASE k = "KUBECONFIG" -> {Str("/etc/k8s.conf"), Str("~/alt.conf")}
      [] k = "KUBERNETES_HOST" -> {Str("https://10.0.0.1:6443")}
      [] k = "KUBERNETES_VERIFY_SSL" -> {Str(""), Str("false")}
      [] k = "KUBERNETES_CA_CERT_FILE" -> {Str("/env/ca.crt")}
      [] k = "KUBERNETES_API_KEY" -> {Str("abc")}
      [] k = "KUBERNETES_API_KEY_PREFIX" -> {Str("Token")}
      [] k = "KUBERNETES_CERT_FILE" -> {Str("/env/client.crt")}
      [] k = "KUBERNETES_KEY_FILE" -> {Str("/env/client.key")}
      [] k = "KUBERNETES_USERNAME" -> {Str("env-user")}
      [] k = "KUBERNETES_PASSWORD" -> {Str("env-pass")}

\* a bundle may hold any value, the boolean False included
SecretValues(k) ==
    CASE k = "KUBECONFIG" -> {Str("/etc/k8s.conf")}
      [] k = "KUBERNETES_HOST" -> {Str("https://secret:6443")}
      [] k = "KUBERNETES_VERIFY_SSL" -> {PyFalse, Str("yes")}
      [] k = "KUBERNETES_CA_CERT_FILE" -> {Str("/secret/ca.crt")}
      [] k = "KUBERNETES_API_KEY" -> {Str("xyz")}
      [] k = "KUBERNETES_API_KEY_PREFIX" -> {Str("Basic")}
      [] k = "KUBERNETES_CERT_FILE" -> {Str("/secret/client.crt")}
      [] k = "KUBERNETES_KEY_FILE" -> {Str("/secret/client.key")}
      [] k = "KUBERNETES_USERNAME" -> {Str("u")}
      [] k = "KUBERNETES_PASSWORD" -> {Str("secret-pass")}

\* the environs whose key set is K
EnvDicts(K) ==
    {f \in [K -> UNION {EnvValues(k) : k \in K}] : \A k \in K : f[k] \in EnvValues(k)}

\* the secrets dicts whose key set is K
SecretDicts(K) ==
    {f \in [K -> UNION {SecretValues(k) : k \in K}] : \A k \in K : f[k] \in SecretValues(k)}

KeySets(from, n) == {K \in SUBSET from : Cardinality(K) <= n}

Environments(from, n) == UNION {EnvDicts(K) : K \in KeySets(from, n)}

\* the secrets argument: <<>> is None, <<m>> is the dict m
Bundles(from, n) ==
    {<<>>} \cup {<<m>> : m \in UNION {SecretDicts(K) : K \in KeySets(from, n)}}

-----------------------------------------------------------------------------
(* The client resolver *)

\* mutant: the KUBECONFIG variable is not consulted
has_local_config_file_default_only(e, fs) == expanduser(DefaultKubeconfig) \in fs

has_local_config_file(e, fs) ==
    LET config_path == expanduser(dict_get(e, "KUBECONFIG", Str(DefaultKubeconfig))[2])
    IN  config_path \in fs

\* secrets = secrets or {}
secrets_or_empty(s) == IF s = <<>> \/ DOMAIN s[1] = {} THEN EmptyDict ELSE s[1]

\* mutant: the environ is looked up before the secrets
lookup_env_first(secrets, e, k, d) == dict_get(e, k, dict_get(secrets, k, d))

lookup(secrets, e, k, d) == dict_get(secrets, k, dict_get(e, k, d))

\* client.Configuration(): the library's defaults
Configuration ==
    [debug |-> FALSE, host |-> Str("https://localhost"), verify_ssl |-> TRUE,
     ssl_ca_cert |-> PyNone, cert_file |-> PyNone, key_file |-> PyNone,
     api_key |-> EmptyDict, api_key_prefix |-> EmptyDict,
     username |-> Str(""), password |-> Str("")]

\* mutant: only the environ triggers an authentication mode
present_env_only(secrets, e, k) == k \in DOMAIN e

\* key in env or key in secrets
present(secrets, e, k) == k \in DOMAIN e \/ k \in DOMAIN secrets

\* mutant: the text of KUBERNETES_VERIFY_SSL is parsed as a boolean
base_configuration_parsed(secrets, e) ==
    [Configuration EXCEPT
        !.debug = TRUE,
        !.host = lookup(secrets, e, "KUBERNETES_HOST", Str("http://localhost")),
        !.verify_ssl = (lookup(secrets, e, "KUBERNETES_VERIFY_SSL", PyFalse)
                            \notin {PyFalse, Str(""), Str("false")}),
        !.cert_file = lookup(secrets, e, "KUBERNETES_CA_CERT_FILE", PyNone)]

base_configuration(secrets, e) ==
    [Configuration EXCEPT
        !.debug = TRUE,
        !.host = lookup(secrets, e, "KUBERNETES_HOST", Str("http://localhost")),
        !.verify_ssl = (lookup(secrets, e, "KUBERNETES_VERIFY_SSL", PyFalse) # PyFalse),
        !.cert_file = lookup(secrets, e, "KUBERNETES_CA_CERT_FILE", PyNone)]

build_configuration(secrets, e) ==
    LET c == base_configuration(secrets, e)
    IN  IF present(secrets, e, "KUBERNETES_API_KEY") THEN
            [c EXCEPT
                !.api_key = [a \in {"authorization"} |->
                                lookup(secrets, e, "KUBERNETES_API_KEY", PyNone)],
                !.api_key_prefix = [a \in {"authorization"} |->
                                lookup(secrets, e, "KUBERNETES_API_KEY_PREFIX", Str("Bearer"))]]
        ELSE IF present(secrets, e, "KUBERNETES_CERT_FILE") THEN
            [c EXCEPT
                !.cert_file = lookup(secrets, e, "KUBERNETES_CERT_FILE", PyNone),
                !.key_file = lookup(secrets, e, "KUBERNETES_KEY_FILE", PyNone)]
        ELSE IF present(secrets, e, "KUBERNETES_USERNAME") THEN
            [c EXCEPT
                !.username = lookup(secrets, e, "KUBERNETES_USERNAME", PyNone),
                !.password = lookup(secrets, e, "KUBERNETES_PASSWORD", Str(""))]
        ELSE c

\* config.new_client_from_config(): the library's loader, no Configuration of ours
new_client_from_config == [kind |-> "new_client_from_config", configuration |-> 0]

\* mutant: one process-wide Configuration object
shared_object(h) == 1

\* a new Configuration object: the next free object id
new_object(h) == Len(h) + 1

store(h, id, c) == IF id = Len(h) + 1 THEN Append(h, c) ELSE [h EXCEPT ![id] = c]

\* the call's return and the state it leaves: s is the caller's argument
create_k8s_api_client(s, e, fs, h) ==
    LET secrets == secrets_or_empty(s)
    IN  IF has_local_config_file(e, fs) THEN
            [ret |-> new_client_from_config, heap |-> h, env |-> e, secrets |-> s]
        ELSE
            LET id == new_object(h)
            IN  [ret |-> [kind |-> "ApiClient", configuration |-> id],
                 heap |-> store(h, id, build_configuration(secrets, e)),
                 env |-> e, secrets |-> s]

Create(s) ==
    LET r == create_k8s_api_client(s, env, files, heap)
    IN  /\ env' = r.env
        /\ heap' = r.heap
        /\ calls' = Append(calls,
                [secrets |-> s, env |-> env, files |-> files,
                 secrets_after |-> r.secrets, ret |-> r.ret,
                 configuration |-> IF r.ret.configuration = 0 THEN <<>>
                                   ELSE <<r.heap[r.ret.configuration]>>])
        /\ UNCHANGED <<files, namespaces, registry, discovered, explored,
                       api_calls, log>>

-----------------------------------------------------------------------------
(* Discovery *)

Modules == <<"chaosk8s.actions", "chaosk8s.probes", "chaosk8s.pod.actions",
             "chaosk8s.pod.probes">>

NamespaceNames == {"default", "kube-system", "chaos"}

\* the API server's answers
list_namespaced_pod(ns) == <<"PodList", ns>>
list_namespaced_deployment(ns) == <<"DeploymentList", ns>>

load_exported_activities(reg) ==
    reg["chaosk8s.actions"] \o reg["chaosk8s.probes"]
        \o reg["chaosk8s.pod.actions"] \o reg["chaosk8s.pod.probes"]

\* initialize_discovery_result(name, version, type) of chaoslib
initialize_discovery_result(name, version, type) ==
    [name |-> name, version |-> version, type |-> type,
     activities |-> <<>>, system |-> PyNone]

\* mutant: an entry of info, once set, is kept
RECURSIVE explore_loop_keep_first(_, _)
explore_loop_keep_first(nss, st) ==
    IF nss = <<>> THEN st
    ELSE LET ns == Head(nss)
             info1 == [k \in DOMAIN st.info \cup {"pods"} |->
                          IF k \in DOMAIN st.info THEN st.info[k]
                          ELSE list_namespaced_pod(ns)]
             info2 == [k \in DOMAIN info1 \cup {"deployments"} |->
                          IF k \in DOMAIN info1 THEN info1[k]
                          ELSE list_namespaced_deployment(ns)]
         IN  explore_loop_keep_first(Tail(nss),
                 [info |-> info2,
                  api |-> st.api \o <<<<"list_namespaced_pod", ns>>,
                                      <<"list_namespaced_deployment", ns>>>>])

\* the for loop over the namespaces: st = [info, api]
RECURSIVE explore_loop(_, _)
explore_loop(nss, st) ==
    IF nss = <<>> THEN st
    ELSE LET ns == Head(nss)
             info1 == [k \in DOMAIN st.info \cup {"pods"} |->
                          IF k = "pods" THEN list_namespaced_pod(ns) ELSE st.info[k]]
             info2 == [k \in DOMAIN info1 \cup {"deployments"} |->
                          IF k = "deployments" THEN list_namespaced_deployment(ns)
                          ELSE info1[k]]
         IN  explore_loop(Tail(nss),
                 [info |-> info2,
                  api |-> st.api \o <<<<"list_namespaced_pod", ns>>,
                                      <<"list_namespaced_deployment", ns>>>>])

\* mutant: the cluster is explored without looking for the kubeconfig file
explore_kubernetes_system_unguarded(e, fs, nss) ==
    LET st == explore_loop(nss, [info |-> EmptyDict, api |-> <<<<"list_namespace">>>>])
    IN  [ret |-> <<"dict", st.info>>, api |-> st.api,
         log |-> <<<<"info", "Discovering Kubernetes system">>>>]

\* the return, the API requests made and the log records written
explore_kubernetes_system(e, fs, nss) ==
    LET info_log == <<<<"info", "Discovering Kubernetes system">>>>
    IN  IF ~has_local_config_file(e, fs) THEN
            [ret |-> PyNone, api |-> <<>>,
             log |-> info_log \o
                     <<<<"warn", "Could not locate the default kubeconfig file">>>>]
        ELSE
            LET st == explore_loop(nss, [info |-> EmptyDict,
                                         api |-> <<<<"list_namespace">>>>])
            IN  [ret |-> <<"dict", st.info>>, api |-> st.api, log |-> info_log]

discover(discover_system, e, fs, nss, reg) ==
    LET info_log == <<<<"info", "Discovering capabilities from chaostoolkit-kubernetes">>>>
        d0 == initialize_discovery_result("chaostoolkit-kubernetes", "0.11.0", "kubernetes")
        d1 == [d0 EXCEPT !.activities = d0.activities \o load_exported_activities(reg)]
    IN  IF discover_system THEN
            LET x == explore_kubernetes_system(e, fs, nss)
            IN  [ret |-> [d1 EXCEPT !.system = x.ret], api |-> x.api,
                 log |-> info_log \o x.log]
        ELSE [ret |-> d1, api |-> <<>>, log |-> info_log]

Discover(discover_system) ==
    /\ discovered = <<>>
    /\ explored = <<>>
    /\ LET r == discover(discover_system, env, files, namespaces, registry)
       IN  /\ discovered' = <<[discover_system |-> discover_system, ret |-> r.ret]>>
           /\ api_calls' = api_calls \o r.api
           /\ log' = log \o r.log
    /\ UNCHANGED <<env, files, heap, calls, namespaces, registry, explored>>

Explore ==
    /\ discovered = <<>>
    /\ explored = <<>>
    /\ LET r == explore_kubernetes_system(env, files, namespaces)
       IN  /\ explored' = <<r.ret>>
           /\ api_calls' = api_calls \o r.api
           /\ log' = log \o r.log
    /\ UNCHANGED <<env, files, heap, calls, namespaces, registry, discovered>>

-----------------------------------------------------------------------------
(* Specifications *)

NoCluster ==
    /\ namespaces = <<>>
    /\ registry = [m \in {Modules[i] : i \in 1..4} |-> <<>>]
    /\ discovered = <<>>
    /\ explored = <<>>
    /\ api_calls = <<>>
    /\ log = <<>>

\* Spec: one call of the resolver, from any environment and filesystem
Init ==
    /\ env \in Environments(Keys, MaxEnvKeys)
    /\ files \in SUBSET Paths
    /\ heap = <<>>
    /\ calls = <<>>
    /\ NoCluster

AllBundles == Bundles(Keys, MaxSecretKeys)

Next == \E s \in AllBundles : calls = <<>> /\ Create(s)

Spec == Init /\ [][Next]_vars

\* SpecCalls: repeated calls of the resolver in one process
CallKeys == {"KUBERNETES_HOST", "KUBERNETES_API_KEY", "KUBERNETES_CERT_FILE",
             "KUBERNETES_USERNAME"}

InitCalls ==
    /\ env \in Environments(CallKeys, Cardinality(CallKeys))
    /\ files \in {{}, {expanduser(DefaultKubeconfig)}}
    /\ heap = <<>>
    /\ calls = <<>>
    /\ NoCluster

CallBundles == Bundles(CallKeys, Cardinality(CallKeys))

NextCalls == \E s \in CallBundles : Len(calls) < MaxCalls /\ Create(s)

SpecCalls == InitCalls /\ [][NextCalls]_vars

\* SpecDiscover: one discovery, or one direct exploration of the cluster
NamespaceLists ==
    {q \in UNION {[1..n -> NamespaceNames] : n \in 0..MaxNamespaces} :
        \A i, j \in DOMAIN q : i # j => q[i] # q[j]}

Registries ==
    [{Modules[i] : i \in 1..4} -> {<<>>, <<"activity">>}]

InitDiscover ==
    /\ env \in Environments({"KUBECONFIG"}, 1)
    /\ files \in SUBSET Paths
    /\ heap = <<>>
    /\ calls = <<>>
    /\ namespaces \in NamespaceLists
    /\ registry \in Registries
    /\ discovered = <<>>
    /\ explored = <<>>
    /\ api_calls = <<>>
    /\ log = <<>>

NextDiscover == (\E b \in BOOLEAN : Discover(b)) \/ Explore

SpecDiscover == InitDiscover /\ [][NextDiscover]_vars

-----------------------------------------------------------------------------
(* Vocabulary of the properties: what a call was given, and what the        *)
(* specification expects of it                                              *)

InSecrets(c, k) == c.secrets # <<>> /\ k \in DOMAIN c.secrets[1]
InEnv(c, k) == k \in DOMAIN c.env
Present(c, k) == InSecrets(c, k) \/ InEnv(c, k)

\* the value the specification's lookup(k, d) gives for the call c
Expected(c, k, d) ==
    IF InSecrets(c, k) THEN c.secrets[1][k]
    ELSE IF InEnv(c, k) THEN c.env[k]
    ELSE d

\* a file exists at $KUBECONFIG, or at ~/.kube/config when that is unset
LocalConfigExists(e, fs) ==
    IF "KUBECONFIG" \in DOMAIN e THEN expanduser(e["KUBECONFIG"][2]) \in fs
    ELSE "/home/user/.kube/config" \in fs

\* the calls that built a Configuration, and the Configuration each returned
Built == {i \in DOMAIN calls : calls[i].configuration # <<>>}
Cfg(c) == c.configuration[1]

\* the authentication mode the specification selects for the call c
Mode(c) ==
    IF Present(c, "KUBERNETES_API_KEY") THEN "api_key"
    ELSE IF Present(c, "KUBERNETES_CERT_FILE") THEN "certificate"
    ELSE IF Present(c, "KUBERNETES_USERNAME") THEN "basic"
    ELSE "none"

ApiKeyPopulated(cfg) == DOMAIN cfg.api_key # {} \/ DOMAIN cfg.api_key_prefix # {}
CertificatePopulated(cfg) == cfg.cert_file # PyNone \/ cfg.key_file # PyNone
BasicPopulated(cfg) == cfg.username # Str("") \/ cfg.password # Str("")

-----------------------------------------------------------------------------
\* C1: when a file exists at the path $KUBECONFIG names (~/.kube/config when
\* unset), the call returns the loader's client and builds no Configuration,
\* whatever the bundle and the environ hold; the existence check depends on the
\* environ and the filesystem alone, so without such a file the call builds its
\* own client even when the bundle's KUBECONFIG names an existing file.
C1_LocalConfigWins ==
    \A i \in DOMAIN calls :
        LET c == calls[i]
        IN  IF LocalConfigExists(c.env, c.files)
            THEN /\ c.ret = [kind |-> "new_client_from_config", configuration |-> 0]
                 /\ c.configuration = <<>>
                 /\ heap = <<>>
            ELSE c.ret.kind = "ApiClient"

\* a local file exists at $KUBECONFIG (not at the default path) and the bundle
\* holds credentials that contradict it
C1_Witness ==
    \E i \in DOMAIN calls :
        LET c == calls[i]
        IN  /\ InEnv(c, "KUBECONFIG")
            /\ LocalConfigExists(c.env, c.files)
            /\ "/home/user/.kube/config" \notin c.files
            /\ InSecrets(c, "KUBERNETES_API_KEY")
            /\ c.ret.kind = "new_client_from_config"

-----------------------------------------------------------------------------
\* where the value of key k lands in the Configuration, when the selected mode
\* reads k at all
Used(c, k) ==
    CASE k \in {"KUBERNETES_HOST", "KUBERNETES_VERIFY_SSL"} -> TRUE
      [] k = "KUBERNETES_CA_CERT_FILE" -> Mode(c) # "certificate"
      [] k \in {"KUBERNETES_API_KEY", "KUBERNETES_API_KEY_PREFIX"} -> Mode(c) = "api_key"
      [] k \in {"KUBERNETES_CERT_FILE", "KUBERNETES_KEY_FILE"} -> Mode(c) = "certificate"
      [] k \in {"KUBERNETES_USERNAME", "KUBERNETES_PASSWORD"} -> Mode(c) = "basic"

Carries(cfg, k, v) ==
    CASE k = "KUBERNETES_HOST" -> cfg.host = v
      [] k = "KUBERNETES_VERIFY_SSL" -> cfg.verify_ssl = (v # PyFalse)
      [] k = "KUBERNETES_CA_CERT_FILE" -> cfg.cert_file = v
      [] k = "KUBERNETES_API_KEY" -> cfg.api_key["authorization"] = v
      [] k = "KUBERNETES_API_KEY_PREFIX" -> cfg.api_key_prefix["authorization"] = v
      [] k = "KUBERNETES_CERT_FILE" -> cfg.cert_file = v
      [] k = "KUBERNETES_KEY_FILE" -> cfg.key_file = v
      [] k = "KUBERNETES_USERNAME" -> cfg.username = v
      [] k = "KUBERNETES_PASSWORD" -> cfg.password = v

\* C2: without a local config file, for every credential key K the selected
\* mode reads: if K is in the bundle the Configuration carries the bundle's
\* value, whatever the environ holds for K; the environ's value is carried only
\* when K is absent from the bundle.
C2_BundleOverridesEnvironment ==
    \A i \in Built : \A k \in CredentialKeys :
        LET c == calls[i]
        IN  Used(c, k) =>
                /\ InSecrets(c, k) => Carries(Cfg(c), k, c.secrets[1][k])
                /\ (~InSecrets(c, k) /\ InEnv(c, k)) => Carries(Cfg(c), k, c.env[k])

\* a key is set in both sources, to different values, and the bundle's is used
C2_Witness ==
    \E i \in Built :
        LET c == calls[i]
        IN  /\ InSecrets(c, "KUBERNETES_HOST") /\ InEnv(c, "KUBERNETES_HOST")
            /\ c.secrets[1]["KUBERNETES_HOST"] # c.env["KUBERNETES_HOST"]
            /\ InSecrets(c, "KUBERNETES_VERIFY_SSL") /\ InEnv(c, "KUBERNETES_VERIFY_SSL")
            /\ Cfg(c).host = Str("https://secret:6443")

-----------------------------------------------------------------------------
\* C3: without a local config file the authentication mode is chosen by strict
\* priority on the presence of the trigger key in either source: API key over
\* client certificate over username; with both KUBERNETES_API_KEY and
\* KUBERNETES_CERT_FILE present, API-key mode is selected and cert_file and
\* key_file are not populated, whatever the other keys are.
C3_StrictPriority ==
    \A i \in Built :
        LET c == calls[i]
            cfg == Cfg(c)
        IN  /\ (Present(c, "KUBERNETES_API_KEY") /\ Present(c, "KUBERNETES_CERT_FILE")) =>
                    /\ DOMAIN cfg.api_key = {"authorization"}
                    /\ cfg.cert_file = PyNone
                    /\ cfg.key_file = PyNone
            /\ (Present(c, "KUBERNETES_API_KEY") /\ Present(c, "KUBERNETES_USERNAME")) =>
                    /\ DOMAIN cfg.api_key = {"authorization"}
                    /\ ~BasicPopulated(cfg)
            /\ (~Present(c, "KUBERNETES_API_KEY") /\ Present(c, "KUBERNETES_CERT_FILE")
                    /\ Present(c, "KUBERNETES_USERNAME")) =>
                    /\ cfg.cert_file = Expected(c, "KUBERNETES_CERT_FILE", PyNone)
                    /\ ~BasicPopulated(cfg)
                    /\ ~ApiKeyPopulated(cfg)

-----------------------------------------------------------------------------
\* C4: without a local config file, verify_ssl is false when
\* KUBERNETES_VERIFY_SSL is in neither source, true when the value looked up is
\* anything but the boolean False (the empty string and the text "false"
\* included), and false when the bundle holds False, even if the environ sets
\* the variable.
C4_VerifySsl ==
    \A i \in Built :
        LET c == calls[i]
            k == "KUBERNETES_VERIFY_SSL"
        IN  /\ ~Present(c, k) => Cfg(c).verify_ssl = FALSE
            /\ (Present(c, k) /\ Expected(c, k, PyFalse) # PyFalse) =>
                    Cfg(c).verify_ssl = TRUE
            /\ (InSecrets(c, k) /\ c.secrets[1][k] = PyFalse) => Cfg(c).verify_ssl = FALSE

\* the environ alone sets the variable, to the text "false", and verification is on
C4_Witness ==
    \E i \in Built :
        LET c == calls[i]
        IN  /\ ~InSecrets(c, "KUBERNETES_VERIFY_SSL")
            /\ InEnv(c, "KUBERNETES_VERIFY_SSL")
            /\ c.env["KUBERNETES_VERIFY_SSL"] = Str("false")
            /\ Cfg(c).verify_ssl = TRUE

-----------------------------------------------------------------------------
NumberPopulated(cfg) ==
    (IF ApiKeyPopulated(cfg) THEN 1 ELSE 0)
        + (IF CertificatePopulated(cfg) THEN 1 ELSE 0)
        + (IF BasicPopulated(cfg) THEN 1 ELSE 0)

\* C5: every Configuration the call builds has at most one authentication mode
\* populated among API key, client certificate and username/password; with
\* none of the three trigger keys present, no authentication field is populated.
C5_AtMostOneMode ==
    \A i \in Built :
        LET c == calls[i]
        IN  /\ NumberPopulated(Cfg(c)) <= 1
            /\ Mode(c) = "none" => NumberPopulated(Cfg(c)) = 0

-----------------------------------------------------------------------------
\* C6: without a local config file the Configuration keeps the CA certificate
\* path lookup("KUBERNETES_CA_CERT_FILE", None) in every authentication mode:
\* selecting client-certificate mode neither replaces nor loses it.
C6_CaCertKept ==
    \A i \in Built :
        LET c == calls[i]
            ca == Expected(c, "KUBERNETES_CA_CERT_FILE", PyNone)
        IN  Cfg(c).ssl_ca_cert = ca \/ Cfg(c).cert_file = ca

-----------------------------------------------------------------------------
\* C7: without a local config file: host is "http://localhost" when
\* KUBERNETES_HOST is in neither source; in API-key mode the key is the value
\* looked up and the prefix is "Bearer" when no prefix is given; in
\* client-certificate mode key_file is the value looked up (None without one);
\* in username mode the password is "" when none is given. The trigger key may
\* come from either source: an environ of {KUBERNETES_HOST, KUBERNETES_API_KEY}
\* alone gives that host, verify_ssl false, key "abc", prefix "Bearer"; a bundle
\* of {KUBERNETES_USERNAME: "u"} alone gives username "u", password "".
C7_FieldsAndDefaults ==
    \A i \in Built :
        LET c == calls[i]
            cfg == Cfg(c)
        IN  /\ ~Present(c, "KUBERNETES_HOST") => cfg.host = Str("http://localhost")
            /\ Mode(c) = "api_key" =>
                    /\ DOMAIN cfg.api_key = {"authorization"}
                    /\ cfg.api_key["authorization"] = Expected(c, "KUBERNETES_API_KEY", PyNone)
                    /\ DOMAIN cfg.api_key_prefix = {"authorization"}
                    /\ ~Present(c, "KUBERNETES_API_KEY_PREFIX") =>
                            cfg.api_key_prefix["authorization"] = Str("Bearer")
            /\ Mode(c) = "certificate" =>
                    /\ cfg.cert_file = Expected(c, "KUBERNETES_CERT_FILE", PyNone)
                    /\ cfg.key_file = Expected(c, "KUBERNETES_KEY_FILE", PyNone)
            /\ Mode(c) = "basic" =>
                    /\ cfg.username = Expected(c, "KUBERNETES_USERNAME", PyNone)
                    /\ ~Present(c, "KUBERNETES_PASSWORD") => cfg.password = Str("")
            /\ (c.secrets = <<>> /\ DOMAIN c.env = {"KUBERNETES_HOST", "KUBERNETES_API_KEY"}) =>
                    /\ cfg.host = Str("https://10.0.0.1:6443")
                    /\ cfg.verify_ssl = FALSE
                    /\ cfg.api_key = [a \in {"authorization"} |-> Str("abc")]
                    /\ cfg.api_key_prefix = [a \in {"authorization"} |-> Str("Bearer")]
            /\ (c.secrets # <<>> /\ DOMAIN c.secrets[1] = {"KUBERNETES_USERNAME"}
                    /\ DOMAIN c.env = {}) =>
                    /\ cfg.username = Str("u")
                    /\ cfg.password = Str("")
                    /\ ~ApiKeyPopulated(cfg)

\* the bundle alone names the user: username mode, with the default password
C7_Witness ==
    \E i \in Built :
        LET c == calls[i]
        IN  /\ c.secrets # <<>> /\ DOMAIN c.secrets[1] = {"KUBERNETES_USERNAME"}
            /\ DOMAIN c.env = {}
            /\ Cfg(c).username = Str("u")
            /\ Cfg(c).password = Str("")
            /\ Cfg(c).host = Str("http://localhost")

-----------------------------------------------------------------------------
ExploreLogged ==
    \E i \in DOMAIN log : log[i] = <<"info", "Discovering Kubernetes system">>

\* C8: discover returns its record, with the name, the version, the type
\* "kubernetes" and the activities of the four modules in order, whether or not
\* a local config file exists; asked for the system without such a file it makes
\* no cluster API call and the record's system is None; not asked for the
\* system it does not enter explore_kubernetes_system and the system stays None.
C8_DiscoverWithoutLocalConfig ==
    \A i \in DOMAIN discovered :
        LET d == discovered[i]
        IN  /\ d.ret.name = "chaostoolkit-kubernetes"
            /\ d.ret.version = "0.11.0"
            /\ d.ret.type = "kubernetes"
            /\ d.ret.activities =
                    registry[Modules[1]] \o registry[Modules[2]]
                        \o registry[Modules[3]] \o registry[Modules[4]]
            /\ (d.discover_system /\ ~LocalConfigExists(env, files)) =>
                    /\ api_calls = <<>>
                    /\ d.ret.system = PyNone
                    /\ ExploreLogged
            /\ ~d.discover_system =>
                    /\ ~ExploreLogged
                    /\ api_calls = <<>>
                    /\ d.ret.system = PyNone

\* the system was asked for, no local config file exists, the cluster has
\* namespaces and the modules export activities
C8_Witness ==
    /\ discovered # <<>>
    /\ discovered[1].discover_system
    /\ ~LocalConfigExists(env, files)
    /\ namespaces # <<>>
    /\ Len(discovered[1].ret.activities) = 4
    /\ discovered[1].ret.system = PyNone

-----------------------------------------------------------------------------
-----------------------------------------------------------------------------
\* the cluster was explored: directly, or by discover asked for the system
Explored ==
    \/ explored # <<>>
    \/ discovered # <<>> /\ discovered[1].discover_system

Snapshot == IF explored # <<>> THEN explored[1] ELSE discovered[1].ret.system

\* C10: with a local config file, explore_kubernetes_system lists the
\* namespaces once, then for each namespace in listing order requests its pods
\* and then its deployments; the snapshot returned holds the pods and the
\* deployments of the last namespace listed, and holds neither entry when no
\* namespace is listed.
C10_LastNamespaceSurvives ==
    (Explored /\ LocalConfigExists(env, files)) =>
        LET n == Len(namespaces)
        IN  /\ Len(api_calls) = 1 + 2 * n
            /\ api_calls[1] = <<"list_namespace">>
            /\ \A i \in 1..n :
                    /\ api_calls[2 * i] = <<"list_namespaced_pod", namespaces[i]>>
                    /\ api_calls[2 * i + 1] = <<"list_namespaced_deployment", namespaces[i]>>
            /\ Snapshot[1] = "dict"
            /\ IF n = 0 THEN DOMAIN Snapshot[2] = {}
               ELSE /\ DOMAIN Snapshot[2] = {"pods", "deployments"}
                    /\ Snapshot[2]["pods"] = <<"PodList", namespaces[n]>>
                    /\ Snapshot[2]["deployments"] = <<"DeploymentList", namespaces[n]>>

\* two namespaces were listed and the first one's pods are not in the snapshot
C10_Witness ==
    /\ explored # <<>>
    /\ LocalConfigExists(env, files)
    /\ Len(namespaces) = 2
    /\ explored[1][2]["pods"] # <<"PodList", namespaces[1]>>
    /\ explored[1][2]["pods"] = <<"PodList", namespaces[2]>>

====
